---- MODULE Spec2Model ----
\* Model of broadlink/remote.py: the universal-remote classes rmmini, rmpro,
\* rmminib, rm4mini, rm4pro, rm and rm4, their framing (_send), their parsers
\* and their supported_features, with Python's method resolution made explicit.
\* A Python function whose locals are used more than once is written as a
\* chain of operators, each local becoming the parameter of the next one.
EXTENDS Integers, Sequences, FiniteSets, TLC

VARIABLES dev, track, first, order, last

vars == <<dev, track, first, order, last>>

\* ---------------------------------------------------------------- bounds
\* Longest short code offered to send_data (longer ones are the two codes
\* around the limit of the 16-bit length field).
MaxCodeLen == 1

\* Bytes that follow the is_locked byte in a full status payload.
TailLen == 1

\* ------------------------------------------------------- class Features
LEARN_IR_CODE == 1

SEND_IR_CODE == 2

LEARN_RF_CODE == 4

SEND_RF_CODE == 8

CHECK_TEMPERATURE == 16

CHECK_HUMIDITY == 32

\* int.__or__ on the flag values
RECURSIVE BitOr(_, _)
BitOr(a, b) ==
  IF a = 0 THEN b
  ELSE IF b = 0 THEN a
  ELSE (IF a % 2 = 1 \/ b % 2 = 1 THEN 1 ELSE 0) + 2 * BitOr(a \div 2, b \div 2)

\* flag in features (IntFlag.__contains__): features & flag == flag, flag one bit
HasFlag(features, flag) == (features \div flag) % 2 = 1

\* ------------------------------------------------------ bytes and struct
\* largest value struct format "H" packs
MaxUShort == 65535

\* whether struct format "I" packs n (0 <= n < 2^32, stated without the literal)
FitsUInt(n) == n >= 0 /\ n \div 65536 <= MaxUShort

Min(a, b) == IF a < b THEN a ELSE b

\* s[lo:hi] with both ends already within the buffer
SliceClamped(s, lo, hi) == IF hi <= lo THEN <<>> ELSE SubSeq(s, lo + 1, hi)

\* s[a:b] of Python, 0-based, clamped to the buffer, never failing
Slice(s, a, b) == SliceClamped(s, Min(a, Len(s)), Min(b, Len(s)))

\* s[a:]
SliceFrom(s, a) == Slice(s, a, Len(s))

\* little-endian bytes of n, w bytes wide
RECURSIVE LittleEndian(_, _)
LittleEndian(n, w) ==
  IF w = 0 THEN <<>> ELSE <<n % 256>> \o LittleEndian(n \div 256, w - 1)

\* struct.pack("<I", command)
pack_I(command) ==
  IF ~FitsUInt(command)
  THEN [exc |-> "struct.error", bytes |-> <<>>]
  ELSE [exc |-> "none", bytes |-> LittleEndian(command, 4)]

\* struct.pack("<HI", length, command)
pack_HI(length, command) ==
  IF length < 0 \/ length > MaxUShort \/ ~FitsUInt(command)
  THEN [exc |-> "struct.error", bytes |-> <<>>]
  ELSE [exc |-> "none", bytes |-> LittleEndian(length, 2) \o LittleEndian(command, 4)]

\* struct.unpack("<H", buf)[0]: the buffer must hold exactly two bytes
unpack_H(buf) ==
  IF Len(buf) # 2
  THEN [exc |-> "struct.error", val |-> 0]
  ELSE [exc |-> "none", val |-> buf[1] + 256 * buf[2]]

\* one byte read as a signed char (struct format "b")
SignedByte(b) == IF b >= 128 THEN b - 256 ELSE b

\* struct.unpack("<bb", buf): the buffer must hold exactly two bytes
unpack_bb(buf) ==
  IF Len(buf) # 2
  THEN [exc |-> "struct.error", val |-> <<0, 0>>]
  ELSE [exc |-> "none", val |-> <<SignedByte(buf[1]), SignedByte(buf[2])>>]

\* bytes.split(b"\x00")[0]: the bytes before the first NUL
RECURSIVE SplitNul(_)
SplitNul(s) ==
  IF s = <<>> \/ Head(s) = 0 THEN <<>> ELSE <<Head(s)>> \o SplitNul(Tail(s))

IsCont(s, i) == i <= Len(s) /\ s[i] >= 128 /\ s[i] <= 191

\* length of the UTF-8 sequence that starts s, 0 when s starts with none
Utf8Len(s) ==
  IF s[1] < 128 THEN 1
  ELSE IF s[1] >= 194 /\ s[1] <= 223 /\ IsCont(s, 2) THEN 2
  ELSE IF s[1] >= 224 /\ s[1] <= 239 /\ IsCont(s, 2) /\ IsCont(s, 3)
          /\ (s[1] = 224 => s[2] >= 160) /\ (s[1] = 237 => s[2] <= 159) THEN 3
  ELSE IF s[1] >= 240 /\ s[1] <= 244 /\ IsCont(s, 2) /\ IsCont(s, 3) /\ IsCont(s, 4)
          /\ (s[1] = 240 => s[2] >= 144) /\ (s[1] = 244 => s[2] <= 143) THEN 4
  ELSE 0

\* the code point of the n-byte sequence that starts s
Utf8CodePoint(s, n) ==
  IF n = 1 THEN s[1]
  ELSE IF n = 2 THEN (s[1] - 192) * 64 + (s[2] - 128)
  ELSE IF n = 3 THEN (s[1] - 224) * 4096 + (s[2] - 128) * 64 + (s[3] - 128)
  ELSE (s[1] - 240) * 262144 + (s[2] - 128) * 4096 + (s[3] - 128) * 64 + (s[4] - 128)

Utf8Prepend(cp, rest) ==
  IF rest.exc # "none" THEN rest ELSE [exc |-> "none", str |-> <<cp>> \o rest.str]

\* bytes.decode() (UTF-8, strict): the code points, or UnicodeDecodeError
RECURSIVE decode(_)
Utf8Step(s, n) ==
  IF n = 0 THEN [exc |-> "UnicodeDecodeError", str |-> <<>>]
  ELSE Utf8Prepend(Utf8CodePoint(s, n), decode(SubSeq(s, n + 1, Len(s))))

decode(s) == IF s = <<>> THEN [exc |-> "none", str |-> <<>>] ELSE Utf8Step(s, Utf8Len(s))

\* ------------------------------------------------ classes and resolution
Classes == {"rmmini", "rmpro", "rmminib", "rm4mini", "rm4pro", "rm", "rm4"}

\* mutant: rm4pro names its bases in the other order
Bases_swapped(c) ==
  CASE c = "rmmini" -> <<>>
    [] c = "rmpro" -> <<"rmmini">>
    [] c = "rmminib" -> <<"rmmini">>
    [] c = "rm4mini" -> <<"rmminib">>
    [] c = "rm4pro" -> <<"rmpro", "rm4mini">>
    [] c = "rm" -> <<"rmpro">>
    [] c = "rm4" -> <<"rm4pro">>

\* mutant: the alias rm4 derives from rm4mini
Bases_rm4(c) ==
  CASE c = "rmmini" -> <<>>
    [] c = "rmpro" -> <<"rmmini">>
    [] c = "rmminib" -> <<"rmmini">>
    [] c = "rm4mini" -> <<"rmminib">>
    [] c = "rm4pro" -> <<"rm4mini", "rmpro">>
    [] c = "rm" -> <<"rmpro">>
    [] c = "rm4" -> <<"rm4mini">>

\* the bases each class statement names, in order (device, the transport base
\* class, defines none of the methods below and is left out)
Bases(c) ==
  CASE c = "rmmini" -> <<>>
    [] c = "rmpro" -> <<"rmmini">>
    [] c = "rmminib" -> <<"rmmini">>
    [] c = "rm4mini" -> <<"rmminib">>
    [] c = "rm4pro" -> <<"rm4mini", "rmpro">>
    [] c = "rm" -> <<"rmpro">>
    [] c = "rm4" -> <<"rm4pro">>

\* the names each class body defines
Defines(c) ==
  CASE c = "rmmini" -> {"_send", "fetch_data", "send_data", "enter_learning",
                        "check_data", "supported_features"}
    [] c = "rmpro" -> {"fetch_data", "sweep_frequency", "check_frequency",
                       "find_rf_packet", "cancel_sweep_frequency", "check_sensors",
                       "check_temperature", "supported_features"}
    [] c = "rmminib" -> {"_send"}
    [] c = "rm4mini" -> {"check_sensors", "check_temperature", "check_humidity",
                         "supported_features"}
    [] c = "rm4pro" -> {"supported_features"}
    [] c = "rm" -> {}
    [] c = "rm4" -> {}

SeqRange(s) == {s[i] : i \in 1..Len(s)}

NonEmpty(l) == l # <<>>

\* C3 merge of Python's method resolution order: the head of list i is good
\* when it is in no list's tail
GoodHead(lists, i) ==
  \A j \in 1..Len(lists) : Head(lists[i]) \notin SeqRange(Tail(lists[j]))

\* the first good head
NextHead(lists) ==
  Head(lists[CHOOSE i \in 1..Len(lists) :
               GoodHead(lists, i) /\ \A j \in 1..(i - 1) : ~GoodHead(lists, j)])

DropHead(l, h) == IF l # <<>> /\ Head(l) = h THEN Tail(l) ELSE l

\* take the first good head, drop it from every list, merge the rest
RECURSIVE Merge(_)
MergeTake(lists, h) ==
  <<h>> \o Merge([i \in 1..Len(lists) |-> DropHead(lists[i], h)])

MergeNonEmpty(lists) == IF lists = <<>> THEN <<>> ELSE MergeTake(lists, NextHead(lists))

Merge(lists) == MergeNonEmpty(SelectSeq(lists, NonEmpty))

\* cls.__mro__ (without device and object): the class, then the merge of its
\* bases' linearizations and the list of its bases
RECURSIVE Linearize(_)
LinearizeBases(bs) == Merge([i \in 1..Len(bs) |-> Linearize(bs[i])] \o <<bs>>)

Linearize(c) == <<c>> \o LinearizeBases(Bases(c))

MRO == [c \in Classes |-> Linearize(c)]

\* the first class of the MRO whose body defines the name, or AttributeError
FirstDefining(mro, name) ==
  IF \A i \in 1..Len(mro) : name \notin Defines(mro[i]) THEN "AttributeError"
  ELSE mro[CHOOSE i \in 1..Len(mro) :
             name \in Defines(mro[i]) /\ \A j \in 1..(i - 1) : name \notin Defines(mro[j])]

\* attribute lookup on an instance of cls
Resolve(cls, name) == FirstDefining(MRO[cls], name)

\* --------------------------------------------------- transport boundary
\* A response of the transport is the device's two status bytes
\* (resp[0x22:0x24]) and the plaintext that decrypt(resp[0x38:]) yields.
None == [type |-> "None"]

\* what a method contributes: the frames it handed to send_packet, the
\* responses it consumed, the exception it raised and the value it returned
Raise(frames, nresp, exc) == [frames |-> frames, nresp |-> nresp, exc |-> exc, value |-> None]

Return(frames, nresp, value) == [frames |-> frames, nresp |-> nresp, exc |-> "none", value |-> value]

\* exceptions.check_error: raises when the little-endian status is not zero
check_error(error) ==
  IF error[1] + 256 * error[2] # 0 THEN "DeviceError" ELSE "none"

\* self.send_packet(0x6A, packet): the frame handed to the transport
send_packet(packet_type, packet) == <<[packet_type |-> packet_type, packet |-> packet]>>

\* ------------------------------------------------------------- _send
\* check_error(resp[0x22:0x24]); payload = decrypt(...); return payload[0x4:]
rmmini__send_receive(sent, resp) ==
  IF check_error(resp.err) # "none" THEN Raise(sent, 1, check_error(resp.err))
  ELSE Return(sent, 1, SliceFrom(resp.payload, 4))

\* packet = head + data; resp = self.send_packet(0x6A, packet)
rmmini__send_packet(head, data, resp) ==
  IF head.exc # "none" THEN Raise(<<>>, 0, head.exc)
  ELSE rmmini__send_receive(send_packet(106, head.bytes \o data), resp)

\* mutant: _send sends the packet again when the device reports an error
rmmini__send_again(sent, resp) ==
  IF check_error(resp.err) # "none" THEN Raise(sent \o sent, 2, check_error(resp.err))
  ELSE Return(sent, 1, SliceFrom(resp.payload, 4))

rmmini__send_retry(self, command, data, resp) ==
  IF pack_I(command).exc # "none" THEN Raise(<<>>, 0, pack_I(command).exc)
  ELSE rmmini__send_again(send_packet(106, pack_I(command).bytes \o data), resp)

\* rmmini._send: legacy framing
rmmini__send(self, command, data, resp) ==
  rmmini__send_packet(pack_I(command), data, resp)

\* p_len = struct.unpack("<H", payload[:0x2])[0]; return payload[0x6:p_len+2]
rmminib__send_strip(sent, payload, p_len) ==
  IF p_len.exc # "none" THEN Raise(sent, 1, p_len.exc)
  ELSE Return(sent, 1, Slice(payload, 6, p_len.val + 2))

\* check_error(resp[0x22:0x24]); payload = decrypt(...)
rmminib__send_receive(sent, resp) ==
  IF check_error(resp.err) # "none" THEN Raise(sent, 1, check_error(resp.err))
  ELSE rmminib__send_strip(sent, resp.payload, unpack_H(Slice(resp.payload, 0, 2)))

\* packet = head + data; resp = self.send_packet(0x6A, packet)
rmminib__send_packet(head, data, resp) ==
  IF head.exc # "none" THEN Raise(<<>>, 0, head.exc)
  ELSE rmminib__send_receive(send_packet(106, head.bytes \o data), resp)

\* mutant: the length field counts the data alone
rmminib__send_len(self, command, data, resp) ==
  rmminib__send_packet(pack_HI(Len(data), command), data, resp)

\* rmminib._send: extended framing
rmminib__send(self, command, data, resp) ==
  rmminib__send_packet(pack_HI(Len(data) + 4, command), data, resp)

\* self._send(command, data): the _send the instance's class resolves to
self_send(self, command, data, resp) ==
  IF Resolve(self.cls, "_send") = "rmminib"
  THEN rmminib__send(self, command, data, resp)
  ELSE rmmini__send(self, command, data, resp)

\* ------------------------------------------------------------ parsers
\* mutant: the name is read four bytes early
ParseName_early(resp) == decode(SplitNul(SliceFrom(resp, 68)))

\* resp[0x48:].split(b"\x00")[0].decode()
ParseName(resp) == decode(SplitNul(SliceFrom(resp, 72)))

\* temperature[0x0] + temperature[0x1] / 10.0, in hundredths
Tenths(t) == 100 * t[1] + 10 * t[2]

\* temperature[0x0] + temperature[0x1] / 100.0, in hundredths
Hundredths(t) == 100 * t[1] + t[2]

\* a method that returns nothing once _send has returned
ReturnNone(r) == IF r.exc # "none" THEN r ELSE Return(r.frames, r.nresp, None)

\* ------------------------------------------------------- class rmmini
\* {"name": ..., "is_locked": bool(resp[0x87])}
rmmini_fetch_data_dict(r, name) ==
  IF name.exc # "none" THEN Raise(r.frames, r.nresp, name.exc)
  ELSE IF Len(r.value) <= 135 THEN Raise(r.frames, r.nresp, "IndexError")
  ELSE Return(r.frames, r.nresp,
              [type |-> "dict",
               dict |-> [name |-> name.str, is_locked |-> (r.value[136] # 0)]])

rmmini_fetch_data_parse(r) ==
  IF r.exc # "none" THEN r ELSE rmmini_fetch_data_dict(r, ParseName(r.value))

rmmini_fetch_data(self, resp) == rmmini_fetch_data_parse(self_send(self, 1, <<>>, resp))

rmmini_send_data(self, data, resp) == ReturnNone(self_send(self, 2, data, resp))

rmmini_enter_learning(self, resp) == ReturnNone(self_send(self, 3, <<>>, resp))

rmmini_check_data_return(r) ==
  IF r.exc # "none" THEN r
  ELSE Return(r.frames, r.nresp, [type |-> "bytes", bytes |-> r.value])

rmmini_check_data(self, resp) == rmmini_check_data_return(self_send(self, 4, <<>>, resp))

\* mutant: the base class also declares LEARN_RF_CODE
rmmini_supported_features_rf(self) ==
  Return(<<>>, 0,
         [type |-> "Features",
          bits |-> BitOr(BitOr(LEARN_IR_CODE, SEND_IR_CODE), LEARN_RF_CODE)])

rmmini_supported_features(self) ==
  Return(<<>>, 0, [type |-> "Features", bits |-> BitOr(LEARN_IR_CODE, SEND_IR_CODE)])

\* -------------------------------------------------------- class rmpro
\* {"temperature": ..., "name": ..., "is_locked": bool(resp[0x87])}
rmpro_fetch_data_dict(r, temperature, name) ==
  IF temperature.exc # "none" THEN Raise(r.frames, r.nresp, temperature.exc)
  ELSE IF name.exc # "none" THEN Raise(r.frames, r.nresp, name.exc)
  ELSE IF Len(r.value) <= 135 THEN Raise(r.frames, r.nresp, "IndexError")
  ELSE Return(r.frames, r.nresp,
              [type |-> "dict",
               dict |-> [temperature |-> Tenths(temperature.val),
                         name |-> name.str,
                         is_locked |-> (r.value[136] # 0)]])

rmpro_fetch_data_parse(r) ==
  IF r.exc # "none" THEN r
  ELSE rmpro_fetch_data_dict(r, unpack_bb(Slice(r.value, 0, 2)), ParseName(r.value))

rmpro_fetch_data(self, resp) == rmpro_fetch_data_parse(self_send(self, 1, <<>>, resp))

rmpro_sweep_frequency(self, resp) == ReturnNone(self_send(self, 25, <<>>, resp))

\* return resp[0] == 1
rmpro_check_frequency_return(r) ==
  IF r.exc # "none" THEN r
  ELSE IF Len(r.value) = 0 THEN Raise(r.frames, r.nresp, "IndexError")
  ELSE Return(r.frames, r.nresp, [type |-> "bool", bool |-> (r.value[1] = 1)])

rmpro_check_frequency(self, resp) ==
  rmpro_check_frequency_return(self_send(self, 26, <<>>, resp))

\* mutant: find_rf_packet is refused unless check_frequency came just before
rmpro_find_rf_packet_ordered(self, resp) ==
  IF self.prev # "check_frequency" THEN Raise(<<>>, 0, "RuntimeError")
  ELSE ReturnNone(self_send(self, 27, <<>>, resp))

rmpro_find_rf_packet(self, resp) == ReturnNone(self_send(self, 27, <<>>, resp))

rmpro_cancel_sweep_frequency(self, resp) == ReturnNone(self_send(self, 30, <<>>, resp))

\* {"temperature": temperature[0x0] + temperature[0x1] / 10.0}
rmpro_check_sensors_dict(r, temperature) ==
  IF temperature.exc # "none" THEN Raise(r.frames, r.nresp, temperature.exc)
  ELSE Return(r.frames, r.nresp,
              [type |-> "dict", dict |-> [temperature |-> Tenths(temperature.val)]])

rmpro_check_sensors_parse(r) ==
  IF r.exc # "none" THEN r
  ELSE rmpro_check_sensors_dict(r, unpack_bb(Slice(r.value, 0, 2)))

rmpro_check_sensors(self, resp) == rmpro_check_sensors_parse(self_send(self, 1, <<>>, resp))

rmpro_supported_features(self) ==
  Return(<<>>, 0,
         [type |-> "Features",
          bits |-> BitOr(BitOr(BitOr(BitOr(LEARN_IR_CODE, SEND_IR_CODE), LEARN_RF_CODE),
                               SEND_RF_CODE), CHECK_TEMPERATURE)])

\* ------------------------------------------------------ class rm4mini
\* {"temperature": ... / 100.0, "humidity": resp[0x2] + resp[0x3] / 100.0}
rm4mini_check_sensors_dict(r, temperature) ==
  IF temperature.exc # "none" THEN Raise(r.frames, r.nresp, temperature.exc)
  ELSE IF Len(r.value) <= 3 THEN Raise(r.frames, r.nresp, "IndexError")
  ELSE Return(r.frames, r.nresp,
              [type |-> "dict",
               dict |-> [temperature |-> Hundredths(temperature.val),
                         humidity |-> 100 * r.value[3] + r.value[4]]])

rm4mini_check_sensors_parse(r) ==
  IF r.exc # "none" THEN r
  ELSE rm4mini_check_sensors_dict(r, unpack_bb(Slice(r.value, 0, 2)))

rm4mini_check_sensors(self, resp) ==
  rm4mini_check_sensors_parse(self_send(self, 36, <<>>, resp))

rm4mini_supported_features(self) ==
  Return(<<>>, 0,
         [type |-> "Features",
          bits |-> BitOr(BitOr(BitOr(LEARN_IR_CODE, SEND_IR_CODE), CHECK_TEMPERATURE),
                         CHECK_HUMIDITY)])

\* ------------------------------------------------------- class rm4pro
rm4pro_supported_features(self) ==
  Return(<<>>, 0,
         [type |-> "Features",
          bits |-> BitOr(BitOr(BitOr(BitOr(BitOr(LEARN_IR_CODE, SEND_IR_CODE), LEARN_RF_CODE),
                                     SEND_RF_CODE), CHECK_TEMPERATURE), CHECK_HUMIDITY)])

\* ------------------------------------------------- calls on an instance
\* self.check_sensors(): rmpro's or rm4mini's, by the instance's class
self_check_sensors(self, resp) ==
  CASE Resolve(self.cls, "check_sensors") = "rm4mini" -> rm4mini_check_sensors(self, resp)
    [] Resolve(self.cls, "check_sensors") = "rmpro" -> rmpro_check_sensors(self, resp)
    [] OTHER -> Raise(<<>>, 0, "AttributeError")

\* d[key] of the dict a method returned, as a float
Subscript(r, key) ==
  IF r.exc # "none" THEN r
  ELSE IF key \notin DOMAIN r.value.dict THEN Raise(r.frames, r.nresp, "KeyError")
  ELSE Return(r.frames, r.nresp, [type |-> "float", x100 |-> r.value.dict[key]])

\* rmpro.check_temperature: self.check_sensors()["temperature"]
rmpro_check_temperature(self, resp) == Subscript(self_check_sensors(self, resp), "temperature")

\* rm4mini.check_temperature: self.check_sensors()["temperature"]
rm4mini_check_temperature(self, resp) == Subscript(self_check_sensors(self, resp), "temperature")

\* rm4mini.check_humidity: self.check_sensors()["humidity"]
rm4mini_check_humidity(self, resp) == Subscript(self_check_sensors(self, resp), "humidity")

\* the body of class c that a call of name runs
Body(c, self, name, data, resp) ==
  CASE c = "AttributeError" -> Raise(<<>>, 0, "AttributeError")
    [] name = "fetch_data" /\ c = "rmmini" -> rmmini_fetch_data(self, resp)
    [] name = "fetch_data" /\ c = "rmpro" -> rmpro_fetch_data(self, resp)
    [] name = "send_data" -> rmmini_send_data(self, data, resp)
    [] name = "enter_learning" -> rmmini_enter_learning(self, resp)
    [] name = "check_data" -> rmmini_check_data(self, resp)
    [] name = "sweep_frequency" -> rmpro_sweep_frequency(self, resp)
    [] name = "check_frequency" -> rmpro_check_frequency(self, resp)
    [] name = "find_rf_packet" -> rmpro_find_rf_packet(self, resp)
    [] name = "cancel_sweep_frequency" -> rmpro_cancel_sweep_frequency(self, resp)
    [] name = "check_sensors" /\ c = "rmpro" -> rmpro_check_sensors(self, resp)
    [] name = "check_sensors" /\ c = "rm4mini" -> rm4mini_check_sensors(self, resp)
    [] name = "check_temperature" /\ c = "rmpro" -> rmpro_check_temperature(self, resp)
    [] name = "check_temperature" /\ c = "rm4mini" -> rm4mini_check_temperature(self, resp)
    [] name = "check_humidity" -> rm4mini_check_humidity(self, resp)
    [] name = "supported_features" /\ c = "rmmini" -> rmmini_supported_features(self)
    [] name = "supported_features" /\ c = "rmpro" -> rmpro_supported_features(self)
    [] name = "supported_features" /\ c = "rm4mini" -> rm4mini_supported_features(self)
    [] name = "supported_features" /\ c = "rm4pro" -> rm4pro_supported_features(self)

\* instance.name(...): look the name up along the MRO and run the body found;
\* a name no class of the MRO defines raises AttributeError before any body runs
Invoke(self, name, data, resp) == Body(Resolve(self.cls, name), self, name, data, resp)

\* -------------------------------------------------------------- inputs
CodeBytes == {38, 0}

\* a code of n bytes
LongCode(n) == [i \in 1..n |-> 38]

\* the codes offered to send_data: the short ones, the longest code whose
\* length + 4 still fits the "H" field, and the first one that does not
ShortCodes == UNION {[1..n -> CodeBytes] : n \in 0..MaxCodeLen}

Codes == ShortCodes \cup {LongCode(MaxUShort - 4), LongCode(MaxUShort - 3)}

\* the codes a call is offered: the two-call comparison runs on the short ones
CodesOffered == IF track THEN ShortCodes ELSE Codes

Ok(payload) == [err |-> <<0, 0>>, payload |-> payload]

\* the device reports status 0xfffb
ErrResponse == [err |-> <<251, 255>>, payload |-> <<>>]

\* a plaintext whose first four bytes are the legacy header
LegacyBuf(body) == <<0, 0, 0, 0>> \o body

\* a plaintext with the extended header: length of body + 4, then four bytes
ExtBuf(body) == LittleEndian(Len(body) + 4, 2) \o <<0, 0, 0, 0>> \o body

BothBufs(bodies) == {Ok(LegacyBuf(b)) : b \in bodies} \cup {Ok(ExtBuf(b)) : b \in bodies}

\* a status payload: temperature bytes at 0..1, a name at 0x48, the lock byte
\* at 0x87, and marker bytes at 0x40 and 0x7f (four bytes before each)
StatusPayload(temp, name, lock, mark40, mark7f) ==
  [i \in 1..(136 + TailLen) |->
     IF i <= 2 THEN temp[i]
     ELSE IF i = 65 THEN mark40
     ELSE IF i > 72 /\ i <= 72 + Len(name) THEN name[i - 72]
     ELSE IF i = 128 THEN mark7f
     ELSE IF i = 136 THEN lock
     ELSE 0]

StatusPayloads ==
  { StatusPayload(<<25, 2>>, <<65, 66, 0, 67>>, 1, 90, 0),
    StatusPayload(<<255, 251>>, <<195, 169>>, 0, 0, 1),
    StatusPayload(<<0, 0>>, <<255>>, 0, 0, 0),
    [i \in 1..135 |-> 0] }

\* responses to the operations that return nothing
VoidResponses == {ErrResponse, Ok(<<>>), Ok(ExtBuf(<<>>))}

\* responses to check_data: short and mislabelled plaintexts, and a code
CodeResponses ==
  VoidResponses
    \cup {Ok(<<0, 0, 0>>), Ok(<<16, 0, 0, 0, 0, 0, 7, 8>>), Ok(<<5, 0, 0, 0, 0, 0, 7, 8>>)}
    \cup BothBufs({<<38, 0>>})

FrequencyResponses ==
  VoidResponses \cup BothBufs({<<1>>, <<255>>}) \cup {Ok(ExtBuf(<<0>>))}

SensorResponses ==
  VoidResponses \cup BothBufs({<<25, 2, 60, 5>>, <<255, 251, 200, 99>>, <<25, 2>>})

StatusResponses == {ErrResponse, Ok(<<>>)} \cup BothBufs(StatusPayloads)

\* the answer under which a call is kept as the reference call: the plain
\* acknowledgement
ReferenceResponses == {Ok(ExtBuf(<<>>))}

\* ------------------------------------------------------------- state
\* dev: the class of the instance.  last: the latest call, with what it
\* handed to the transport and what came back to the caller.  first: when
\* track is set, the earliest call the transport answered with one of
\* ReferenceResponses, kept to compare later calls with.  order: where the
\* latest call stands: "reference" (it is the reference call), "next" (the
\* call right after it) or "later" (other calls came in between).
NoResponse == Ok(<<>>)

NoCall ==
  [op |-> "none", arg |-> <<>>, resp |-> NoResponse,
   frames |-> <<>>, nresp |-> 0, exc |-> "none", value |-> None]

\* the instance a method runs on: its class, and the operation called before
Self == [cls |-> dev, prev |-> last.op]

\* a call with what it was given and what came of it
CallRecord(op, arg, resp, out) ==
  [op |-> op, arg |-> arg, resp |-> resp,
   frames |-> out.frames, nresp |-> out.nresp, exc |-> out.exc, value |-> out.value]

Call(op, arg, resp) == CallRecord(op, arg, resp, Invoke(Self, op, arg, resp))

Record(call) ==
  /\ last' = call
  /\ first' = IF track /\ first.op = "none" /\ call.resp \in ReferenceResponses
              THEN call ELSE first
  /\ order' = CASE first'.op = "none" -> "none"
                [] first.op = "none" -> "reference"
                [] order = "reference" -> "next"
                [] OTHER -> "later"
  /\ UNCHANGED <<dev, track>>

Step(op, arg, resp) == Record(Call(op, arg, resp))

Init ==
  /\ dev \in Classes
  /\ track = FALSE
  /\ first = NoCall
  /\ order = "none"
  /\ last = NoCall

InitSeq ==
  /\ dev \in Classes
  /\ track = TRUE
  /\ first = NoCall
  /\ order = "none"
  /\ last = NoCall

fetch_data == \E resp \in StatusResponses : Step("fetch_data", <<>>, resp)

send_data == \E data \in CodesOffered, resp \in VoidResponses : Step("send_data", data, resp)

enter_learning == \E resp \in VoidResponses : Step("enter_learning", <<>>, resp)

check_data == \E resp \in CodeResponses : Step("check_data", <<>>, resp)

sweep_frequency == \E resp \in VoidResponses : Step("sweep_frequency", <<>>, resp)

check_frequency == \E resp \in FrequencyResponses : Step("check_frequency", <<>>, resp)

find_rf_packet == \E resp \in VoidResponses : Step("find_rf_packet", <<>>, resp)

cancel_sweep_frequency == \E resp \in VoidResponses : Step("cancel_sweep_frequency", <<>>, resp)

check_sensors == \E resp \in SensorResponses : Step("check_sensors", <<>>, resp)

check_temperature == \E resp \in SensorResponses : Step("check_temperature", <<>>, resp)

check_humidity == \E resp \in SensorResponses : Step("check_humidity", <<>>, resp)

supported_features == Step("supported_features", <<>>, NoResponse)

Next ==
  \/ fetch_data
  \/ send_data
  \/ enter_learning
  \/ check_data
  \/ sweep_frequency
  \/ check_frequency
  \/ find_rf_packet
  \/ cancel_sweep_frequency
  \/ check_sensors
  \/ check_temperature
  \/ check_humidity
  \/ supported_features

Spec == Init /\ [][Next]_vars

SpecSeq == InitSeq /\ [][Next]_vars

\* ================================================================ claims
\* the tables of the specification, stated apart from the model above
ExtendedVariants == {"rmminib", "rm4mini", "rm4pro", "rm4"}

LegacyVariants == {"rmmini", "rmpro", "rm"}

PublicOps ==
  {"fetch_data", "send_data", "enter_learning", "check_data", "check_sensors",
   "check_temperature", "check_humidity", "sweep_frequency", "check_frequency",
   "find_rf_packet", "cancel_sweep_frequency"}

GatedOps == PublicOps \ {"fetch_data", "check_sensors"}

FlagOf(op) ==
  CASE op \in {"enter_learning", "check_data"} -> 1
    [] op = "send_data" -> 2
    [] op \in {"sweep_frequency", "check_frequency", "find_rf_packet",
               "cancel_sweep_frequency"} -> 4
    [] op = "check_temperature" -> 16
    [] op = "check_humidity" -> 32

OpcodeOf(variant, op) ==
  CASE op = "fetch_data" -> 1
    [] op = "send_data" -> 2
    [] op = "enter_learning" -> 3
    [] op = "check_data" -> 4
    [] op = "sweep_frequency" -> 25
    [] op = "check_frequency" -> 26
    [] op = "find_rf_packet" -> 27
    [] op = "cancel_sweep_frequency" -> 30
    [] op \in {"check_sensors", "check_temperature", "check_humidity"} ->
         IF variant \in {"rmpro", "rm"} THEN 1 ELSE 36

\* what the variant's supported_features property returns
DeclaredFeatures(variant) ==
  Invoke([cls |-> variant, prev |-> "none"], "supported_features", <<>>, NoResponse).value.bits

\* the latest call is a call of an operation the variant has
Offered == last.op \in PublicOps /\ last.exc # "AttributeError"

\* the packet of the one frame of the latest call
Packet == last.frames[1].packet

\* bytes before the opcode in a frame of the variant
HeaderLen == IF dev \in ExtendedVariants THEN 2 ELSE 0

\* bytes before the logical payload in a plaintext of the variant
StripLen == IF dev \in ExtendedVariants THEN 6 ELSE 4

\* the latest call got a response with status zero
Answered == Offered /\ last.nresp > 0 /\ last.resp.err = <<0, 0>>

WellFramed ==
  /\ Len(last.frames) = 1
  /\ Len(Packet) = HeaderLen + 4 + Len(last.arg)
  /\ dev \in ExtendedVariants => Packet[1] + 256 * Packet[2] = Len(last.arg) + 4
  /\ Packet[HeaderLen + 1] = OpcodeOf(dev, last.op)
  /\ \A i \in 2..4 : Packet[HeaderLen + i] = 0
  /\ SubSeq(Packet, HeaderLen + 5, Len(Packet)) = last.arg

\* C2 as stated: every operation on every variant, for every payload length,
\* hands the transport a frame framed as the variant's framing says.
C2_FramedForAllLengths == Offered => WellFramed

\* C2 amended: the same for payloads of at most 65531 bytes under extended
\* framing and of any length under legacy framing; a longer payload under
\* extended framing does not fit the 16-bit field, struct.pack raises
\* struct.error and no frame is handed to the transport.
C2_FramedWithinField ==
  Offered =>
    IF dev \in ExtendedVariants /\ Len(last.arg) + 4 > 65535
    THEN last.frames = <<>> /\ last.exc = "struct.error"
    ELSE WellFramed

C2_Witness ==
  /\ dev = "rm4pro"
  /\ last.op = "send_data"
  /\ Len(last.arg) = 65531
  /\ Len(last.frames) = 1
  /\ Packet[1] = 255 /\ Packet[2] = 255

\* C3: a plaintext too short for the framing (legacy: under 4 bytes;
\* extended: under 6 bytes, or a length field p_len with p_len + 2 beyond the
\* buffer) makes the operation fail instead of returning a shortened payload.
C3_NoSilentTruncation ==
  LET buf == last.resp.payload
      short == IF dev \in LegacyVariants THEN Len(buf) < 4
               ELSE Len(buf) < 6 \/ buf[1] + 256 * buf[2] + 2 > Len(buf)
  IN (Answered /\ short) => last.exc # "none"

\* the opcode field of the latest frame, as a number
SentOpcode ==
  Packet[HeaderLen + 1] + 256 * Packet[HeaderLen + 2]
    + 65536 * (Packet[HeaderLen + 3] + 256 * Packet[HeaderLen + 4])

\* C4: every frame carries the opcode of the operation table (check sensors:
\* 0x01 on rmpro and rm, 0x24 on rm4mini, rm4pro and rm4), and after it the
\* caller's code for send_data and nothing for every other operation.
C4_Opcodes ==
  (Offered /\ last.frames # <<>>) =>
    /\ Len(Packet) >= HeaderLen + 4
    /\ SentOpcode = OpcodeOf(dev, last.op)
    /\ SubSeq(Packet, HeaderLen + 5, Len(Packet))
         = (IF last.op = "send_data" THEN last.arg ELSE <<>>)

C4_Witness ==
  /\ dev = "rm4pro"
  /\ last.op = "check_sensors"
  /\ last.frames # <<>>
  /\ SentOpcode = 36

\* the temperature the latest call returned, in hundredths, if it returned one
HasTemperature ==
  /\ Offered
  /\ last.exc = "none"
  /\ \/ last.op = "check_temperature"
     \/ last.op \in {"fetch_data", "check_sensors"} /\ "temperature" \in DOMAIN last.value.dict

ReturnedTemperature ==
  IF last.op = "check_temperature" THEN last.value.x100 ELSE last.value.dict.temperature

\* C5: every temperature returned is b0 + b1/D of the first two bytes of the
\* logical payload read as signed bytes, D = 10 on rmpro and rm and D = 100
\* on rm4mini, rm4pro and rm4, from fetch status as from check sensors.
C5_DivisorOfVariant ==
  HasTemperature =>
    LET b0 == SignedByte(last.resp.payload[StripLen + 1])
        b1 == SignedByte(last.resp.payload[StripLen + 2])
    IN ReturnedTemperature = 100 * b0 + (IF dev \in {"rmpro", "rm"} THEN 10 * b1 ELSE b1)

\* C6: the result of fetch status holds name and is_locked, and holds a
\* temperature exactly when supported_features hold CHECK_TEMPERATURE.
C6_TemperatureIffFlag ==
  (last.op = "fetch_data" /\ last.exc = "none") =>
    /\ {"name", "is_locked"} \subseteq DOMAIN last.value.dict
    /\ ("temperature" \in DOMAIN last.value.dict) <=> HasFlag(DeclaredFeatures(dev), 16)

\* the name and lock flag read at the given offsets of the plaintext
ReadsStatusAt(nameOffset, lockOffset) ==
  LET buf == last.resp.payload
      ends == {k \in nameOffset..Len(buf) :
                 /\ \A i \in (nameOffset + 1)..k : buf[i] # 0
                 /\ (k = Len(buf) \/ buf[k + 1] = 0)}
  IN /\ \E k \in ends :
          decode(SubSeq(buf, nameOffset + 1, k)) = [exc |-> "none", str |-> last.value.dict.name]
     /\ last.value.dict.is_locked = (buf[lockOffset + 1] # 0)

LegacyStatus == dev \in LegacyVariants /\ last.op = "fetch_data" /\ last.exc = "none"

\* C7 as stated: under legacy framing name is the bytes from offset 0x44 of
\* the decrypted buffer up to the first NUL, and is_locked is whether the
\* byte at offset 0x83 of the decrypted buffer is nonzero.
C7_OffsetsAsStated == LegacyStatus => ReadsStatusAt(68, 131)

\* C7 amended: under legacy framing name is the bytes from offset 0x4c of the
\* decrypted buffer (0x48 of the logical payload) up to the first NUL, and
\* is_locked is whether the byte at offset 0x8b of the decrypted buffer (0x87
\* of the logical payload) is nonzero; no byte after the first NUL is in name.
C7_OffsetsOfCode == LegacyStatus => ReadsStatusAt(76, 139)

C7_Witness ==
  /\ LegacyStatus
  /\ last.value.dict.name = <<65, 66>>
  /\ last.resp.payload[80] = 67
  /\ last.value.dict.is_locked

\* what a call of the latest operation returns on another variant
OutcomeOn(variant) ==
  Invoke([cls |-> variant, prev |-> "none"], last.op, last.arg, last.resp)

SameOutcomeAs(variant) ==
  LET o == OutcomeOn(variant)
  IN /\ last.frames = o.frames
     /\ last.nresp = o.nresp
     /\ last.exc = o.exc
     /\ last.value = o.value

\* C8: rm sends the same frame and returns the same result, failure and
\* supported_features as rmpro for every operation, argument and response,
\* and rm4 the same as rm4pro.
C8_Aliases ==
  last.op # "none" =>
    /\ dev = "rm" => SameOutcomeAs("rmpro")
    /\ dev = "rm4" => SameOutcomeAs("rm4pro")

C8_Witness ==
  /\ dev = "rm4"
  /\ last.op = "check_humidity"
  /\ last.exc = "none"
  /\ last.value.x100 = 6005

\* one frame out, one response in, and a device error reaches the caller
\* with no reading
OneRoundTrip ==
  /\ Len(last.frames) = 1
  /\ last.nresp = 1
  /\ last.resp.err # <<0, 0>> => last.exc = "DeviceError" /\ last.value = None

\* C9 as stated: every call of a public operation hands exactly one frame to
\* the transport and consumes exactly one response, whatever its outcome.
C9_AlwaysOneFrame == Offered => OneRoundTrip

\* C9 amended: the same, except that send_data on an extended-framing variant
\* with a code longer than 65531 bytes fails in struct.pack, hands no frame to
\* the transport and consumes no response.
C9_OneFrameUnlessUnpackable ==
  Offered =>
    IF dev \in ExtendedVariants /\ Len(last.arg) > 65531
    THEN last.frames = <<>> /\ last.nresp = 0 /\ last.exc = "struct.error"
    ELSE OneRoundTrip

C9_Witness ==
  /\ last.op = "check_temperature"
  /\ last.resp.err = <<0, 0>>
  /\ last.exc \in {"struct.error", "IndexError"}
  /\ Len(last.frames) = 1
  /\ last.nresp = 1

====
